---------------------------- MODULE Spec2Model ----------------------------
(***************************************************************************)
(* Model of the reinforcement-cage weight calculator (src/app.py).         *)
(*                                                                         *)
(* Numbers.  Python floats are modelled as exact decimal fixed-point       *)
(* integers, so that "no rounding" and "rounded to 2 places" differ:       *)
(*   length per bar, total length : tenths of a metre   (0.1 m)            *)
(*   unit weight                  : grams per metre     (0.001 kg/m)       *)
(*   total weight                 : 0.0001 kg  (= tenth-metres * g/m)      *)
(* Binary floating-point error (the spec's "floating-point tolerance") is  *)
(* not modelled.                                                           *)
(***************************************************************************)
EXTENDS Integers, Sequences, FiniteSets, TLC

\* ------------------------------------------------------------------ bounds
\* Largest quantity entered in a quantity widget.
MaxQty == 1
\* Largest length entered in a length widget, in tenths of a metre.
MaxLen == 1

\* Number of "Type" slots the form offers per category: range(3).
TypesPerCategory == 3

\* ------------------------------------------------------- the lookup table
\* REBAR_WEIGHTS, in grams per metre (0.617 kg/m = 617).
REBAR_WEIGHTS ==
    ("N10" :> 617)  @@ ("N12" :> 888)  @@ ("N16" :> 1579) @@ ("N20" :> 2466) @@
    ("N24" :> 3551) @@ ("N28" :> 4834) @@ ("N32" :> 6313) @@ ("N36" :> 7990) @@
    ("N40" :> 9865) @@ ("N50" :> 15420)

\* The sizes the modelled user picks in a size selectbox (keys of the table).
UISizes == {"N10", "N12"}
\* A size designation that is no key of the table.
UnknownSizes == {"INVALID"}
\* The selectbox default: index 0 of list(REBAR_WEIGHTS.keys()).
DefaultSize == "N10"

\* ---------------------------------------------------- calculate_bar_weight
\* The tuple calculate_bar_weight returns, with the st.error / st.warning
\* calls it made (in order) as the field st.
rounded_bar_weight(bar_size, quantity, length_per_bar_m) ==
    IF bar_size \notin DOMAIN REBAR_WEIGHTS
    THEN [total_weight |-> 0, unit_weight |-> 0, total_length |-> 0,
          st |-> << [kind |-> "error", size |-> bar_size] >>]
    ELSE IF quantity < 0 \/ length_per_bar_m < 0
    THEN [total_weight |-> 0, unit_weight |-> REBAR_WEIGHTS[bar_size],
          total_length |-> 0,
          st |-> << [kind |-> "warning", size |-> bar_size] >>]
    ELSE LET unit_weight  == REBAR_WEIGHTS[bar_size]
             total_length == quantity * length_per_bar_m
             total_weight == total_length * unit_weight
         IN  [total_weight |-> ((total_weight + 50) \div 100) * 100,
              unit_weight |-> unit_weight,
              total_length |-> total_length, st |-> << >>]

silent_bar_weight(bar_size, quantity, length_per_bar_m) ==
    IF bar_size \notin DOMAIN REBAR_WEIGHTS
    THEN [total_weight |-> 0, unit_weight |-> 0, total_length |-> 0,
          st |-> << >>]
    ELSE IF quantity < 0 \/ length_per_bar_m < 0
    THEN [total_weight |-> 0, unit_weight |-> REBAR_WEIGHTS[bar_size],
          total_length |-> 0,
          st |-> << [kind |-> "warning", size |-> bar_size] >>]
    ELSE LET unit_weight  == REBAR_WEIGHTS[bar_size]
             total_length == quantity * length_per_bar_m
             total_weight == total_length * unit_weight
         IN  [total_weight |-> total_weight, unit_weight |-> unit_weight,
              total_length |-> total_length, st |-> << >>]

lenient_bar_weight(bar_size, quantity, length_per_bar_m) ==
    IF bar_size \notin DOMAIN REBAR_WEIGHTS
    THEN [total_weight |-> 0, unit_weight |-> 0, total_length |-> 0,
          st |-> << [kind |-> "error", size |-> bar_size] >>]
    ELSE IF quantity < 0 /\ length_per_bar_m < 0
    THEN [total_weight |-> 0, unit_weight |-> REBAR_WEIGHTS[bar_size],
          total_length |-> 0,
          st |-> << [kind |-> "warning", size |-> bar_size] >>]
    ELSE LET unit_weight  == REBAR_WEIGHTS[bar_size]
             total_length == quantity * length_per_bar_m
             total_weight == total_length * unit_weight
         IN  [total_weight |-> total_weight, unit_weight |-> unit_weight,
              total_length |-> total_length, st |-> << >>]

calculate_bar_weight(bar_size, quantity, length_per_bar_m) ==
    IF bar_size \notin DOMAIN REBAR_WEIGHTS
    THEN [total_weight |-> 0, unit_weight |-> 0, total_length |-> 0,
          st |-> << [kind |-> "error", size |-> bar_size] >>]
    ELSE IF quantity < 0 \/ length_per_bar_m < 0
    THEN [total_weight |-> 0, unit_weight |-> REBAR_WEIGHTS[bar_size],
          total_length |-> 0,
          st |-> << [kind |-> "warning", size |-> bar_size] >>]
    ELSE LET unit_weight  == REBAR_WEIGHTS[bar_size]
             total_length == quantity * length_per_bar_m
             total_weight == total_length * unit_weight
         IN  [total_weight |-> total_weight, unit_weight |-> unit_weight,
              total_length |-> total_length, st |-> << >>]

\* ------------------------------------------- the Calculate button handler
\* The guard of each of the three loops: "Only calculate if quantity and
\* length are positive".
either_positive(bar_input) == bar_input.qty > 0 \/ bar_input.length > 0

nonzero_inputs(bar_input) == bar_input.qty # 0 /\ bar_input.length # 0

both_positive(bar_input) == bar_input.qty > 0 /\ bar_input.length > 0

\* One `for i, bar_input in enumerate(...)` loop, from index i on.  acc is
\* the (calculation_data, total_cage_weight, st calls) accumulated so far;
\* length_key is the dict key the loop stores the length under.
RECURSIVE bar_loop(_, _, _, _, _)
bar_loop(bar_inputs, i, component, length_key, acc) ==
    IF i > Len(bar_inputs) THEN acc
    ELSE LET bar_input == bar_inputs[i] IN
         IF both_positive(bar_input)
         THEN LET r   == calculate_bar_weight(bar_input.size, bar_input.qty,
                                              bar_input.length)
                  row == ("Component" :> [name |-> component, type |-> i]) @@
                         ("Bar Size" :> bar_input.size) @@
                         ("Quantity" :> bar_input.qty) @@
                         (length_key :> bar_input.length) @@
                         ("Total Length (m)" :> r.total_length) @@
                         ("Unit Weight (kg/m)" :> r.unit_weight) @@
                         ("Total Weight (kg)" :> r.total_weight)
              IN  bar_loop(bar_inputs, i + 1, component, length_key,
                           [data  |-> Append(acc.data, row),
                            total |-> acc.total + r.total_weight,
                            st    |-> acc.st \o r.st])
         ELSE bar_loop(bar_inputs, i + 1, component, length_key, acc)

\* calculation_data, total_cage_weight and the st calls of the three loops.
wall_cage_summary(input_details) ==
    LET a0 == [data |-> << >>, total |-> 0, st |-> << >>]
        a1 == bar_loop(input_details.vertical_bars, 1, "Vertical Bars",
                       "Length per Bar (m)", a0)
        a2 == bar_loop(input_details.horizontal_bars, 1, "Horizontal Bars",
                       "Length per Bar (m)", a1)
    IN  bar_loop(input_details.links, 1, "Links",
                 "Length per Link (m) (Perimeter)", a2)


\* ------------------------------------------------------ number formatting
Pow10(n) == IF n = 0 THEN 1 ELSE IF n = 1 THEN 10 ELSE IF n = 2 THEN 100
            ELSE IF n = 3 THEN 1000 ELSE 10000

\* Python's f"{x:.<dp>f}" of the value num * 10^-exp: the text, as its
\* digits with dp decimal places (26.64 is [digits |-> 2664, dp |-> 2]).
\* Rounds to nearest, a tie to the even digit.
FormatFixed(num, exp, dp) ==
    IF exp <= dp
    THEN [digits |-> num * Pow10(dp - exp), dp |-> dp]
    ELSE LET d    == Pow10(exp - dp)
             a    == IF num < 0 THEN -num ELSE num
             q    == a \div d
             r    == a % d
             up   == 2 * r > d \/ (2 * r = d /\ q % 2 = 1)
             m    == IF up THEN q + 1 ELSE q
         IN  [digits |-> IF num < 0 THEN -m ELSE m, dp |-> dp]

\* str(n) of an int.
StrInt(n) == [digits |-> n, dp |-> 0]

\* ------------------------------------------------------------ download_logo
LOGO_URL == "LOGO_URL"
FALLBACK_LOGO_URL == "FALLBACK_LOGO_URL"
\* What one requests.get does: status 200 with the image, another status,
\* or an exception (network error, timeout).
Outcomes == {"ok", "status", "error"}
\* The file company_logo.png in the working directory is modelled by what it
\* holds: "absent", or the URL whose image was last written to it.

\* The `for url in [LOGO_URL, FALLBACK_LOGO_URL]` loop from index k on.
\* acc.http is the requests made so far with their outcomes, acc.disk the
\* file, acc.logo_file the local variable.
RECURSIVE fetch_loop(_, _, _, _)
fetch_loop(urls, k, outcome, acc) ==
    IF k > Len(urls) THEN acc
    ELSE LET url  == urls[k]
             http == Append(acc.http, [url |-> url, outcome |-> outcome[url]])
         IN  IF outcome[url] = "ok"
             THEN [disk |-> url, http |-> http, logo_file |-> "company_logo.png"]
             ELSE fetch_loop(urls, k + 1, outcome, [acc EXCEPT !.http = http])

download_logo(disk, outcome) ==
    LET r == fetch_loop(<< LOGO_URL, FALLBACK_LOGO_URL >>, 1, outcome,
                        [disk |-> disk, http |-> << >>, logo_file |-> "None"])
    IN  [disk |-> r.disk, http |-> r.http,
         return |-> IF r.logo_file # "None" /\ r.disk # "absent"
                    THEN r.logo_file ELSE "None"]

\* ------------------------------------------------------ _draw_header_footer
\* What is drawn on a page: the logo is whatever company_logo.png holds.
draw_header_footer(disk) ==
    [company |-> "COMPANY_NAME", address |-> "COMPANY_ADDRESS",
     logo    |-> IF disk # "absent" THEN disk ELSE "none",
     footer  |-> "PROGRAM PROGRAM_VERSION | COMPANY_NAME | Page"]

\* ------------------------------------------------------ generate_pdf_report
component_name_map ==
    ("vertical_bars" :> "Vertical Bars") @@
    ("horizontal_bars" :> "Horizontal Bars") @@
    ("links" :> "Links/Ties")

\* for category, items in input_details.items(): the dict's insertion order.
Categories == << "vertical_bars", "horizontal_bars", "links" >>

\* "Only add to report if quantity or length is greater than 0".
shown_if_both(item) == item.qty > 0 /\ item.length > 0

input_row_shown(item) == item.qty > 0 \/ item.length > 0

\* The inner loop of the Input Details table, from item i on.
RECURSIVE input_rows_of(_, _, _, _)
input_rows_of(category, items, i, rows) ==
    IF i > Len(items) THEN rows
    ELSE LET item == items[i] IN
         IF input_row_shown(item)
         THEN input_rows_of(category, items, i + 1,
                  Append(rows,
                         [component |-> [name |-> component_name_map[category],
                                         type |-> i],
                          size      |-> item.size,
                          quantity  |-> StrInt(item.qty),
                          length    |-> FormatFixed(item.length, 1, 2)]))
         ELSE input_rows_of(category, items, i + 1, rows)

input_data_table_content(input_details) ==
    LET r1 == input_rows_of(Categories[1], input_details[Categories[1]], 1, << >>)
        r2 == input_rows_of(Categories[2], input_details[Categories[2]], 1, r1)
    IN  input_rows_of(Categories[3], input_details[Categories[3]], 1, r2)

\* The keys one iteration of `for row in calculation_data` reads.
SummaryRowKeys ==
    {"Component", "Bar Size", "Quantity", "Length per Bar (m)",
     "Total Length (m)", "Unit Weight (kg/m)", "Total Weight (kg)"}

\* One row of the Weight Calculation Summary table.
summary_table_row(row) ==
    [component    |-> row["Component"],
     size         |-> row["Bar Size"],
     quantity     |-> StrInt(row["Quantity"]),
     length       |-> FormatFixed(row["Length per Bar (m)"], 1, 2),
     total_length |-> FormatFixed(row["Total Length (m)"], 1, 2),
     unit_weight  |-> FormatFixed(row["Unit Weight (kg/m)"], 3, 3),
     total_weight |-> FormatFixed(row["Total Weight (kg)"], 4, 2)]

NoSection == [kind |-> "absent", rows |-> << >>, text |-> ""]
NoHeader  == [company |-> "", address |-> "", logo |-> "none", footer |-> ""]
NoTotal   == [digits |-> 0, dp |-> 0]
NoReport  == [status |-> "none", input_section |-> NoSection,
              summary_section |-> NoSection, total_line |-> NoTotal,
              header |-> NoHeader]

\* `if calculation_data: ... else: ...`: the summary table, or the notice.
\* Evaluated once every row has the keys the loop reads.
summary_without_notice(calculation_data) ==
    [kind |-> "table",
     rows |-> [k \in 1..Len(calculation_data) |->
                  summary_table_row(calculation_data[k])],
     text |-> ""]

summary_section_of(calculation_data) ==
    IF calculation_data # << >>
    THEN [kind |-> "table",
          rows |-> [k \in 1..Len(calculation_data) |->
                       summary_table_row(calculation_data[k])],
          text |-> ""]
    ELSE [kind |-> "notice", rows |-> << >>,
          text |-> "No bar details were entered for calculation."]

\* generate_pdf_report: the file and the requests after download_logo, and
\* either the document built or the exception raised while laying it out.
generate_pdf_report(calculation_data, total_weight, input_details, disk, outcome) ==
    LET dl         == download_logo(disk, outcome)
        input_rows == input_data_table_content(input_details)
        input_section ==
            IF Len(input_rows) > 0
            THEN [kind |-> "table", rows |-> input_rows, text |-> ""]
            ELSE [kind |-> "notice", rows |-> << >>,
                  text |-> "No input details were provided."]
        key_error  == \E k \in 1..Len(calculation_data) :
                          ~(SummaryRowKeys \subseteq DOMAIN calculation_data[k])
    IN  IF calculation_data # << >> /\ key_error
        THEN [disk |-> dl.disk, http |-> dl.http,
              report |-> [NoReport EXCEPT !.status = "KeyError"]]
        ELSE [disk |-> dl.disk, http |-> dl.http,
              report |->
                [status |-> "document",
                 input_section |-> input_section,
                 summary_section |-> summary_section_of(calculation_data),
                 total_line |->
                    IF calculation_data # << >>
                    THEN FormatFixed(total_weight, 4, 2) ELSE NoTotal,
                 header |-> draw_header_footer(dl.disk)]]

\* ------------------------------------------- the on-screen summary table
\* The decimal scale of each float column of pd.DataFrame(calculation_data)
\* (the value is the stored integer * 10^-scale).
FloatColumnScale ==
    ("Length per Bar (m)" :> 1) @@ ("Length per Link (m) (Perimeter)" :> 1) @@
    ("Total Length (m)" :> 1) @@ ("Unit Weight (kg/m)" :> 3) @@
    ("Total Weight (kg)" :> 4)

\* The cell of a row that lacks the column's key.
NaN == [nan |-> TRUE]

\* numpy's round of the value num * 10^-exp to `decimals` places (to
\* nearest, a tie to even): the value digits * 10^-dp.
np_round(num, exp, decimals) == FormatFixed(num, exp, decimals)

\* df.round(decimals) of pd.DataFrame(calculation_data): the columns are
\* the keys of all rows; every float column is rounded to `decimals`
\* places, the int column Quantity and the text columns are left as they are.
df_round(calculation_data, decimals) ==
    LET columns == UNION { DOMAIN calculation_data[k] :
                             k \in 1..Len(calculation_data) }
    IN  [k \in 1..Len(calculation_data) |->
           [c \in columns |->
              IF c \notin DOMAIN calculation_data[k] THEN NaN
              ELSE IF c \in DOMAIN FloatColumnScale
              THEN np_round(calculation_data[k][c], FloatColumnScale[c], decimals)
              ELSE calculation_data[k][c]]]

\* ------------------------------------------------------------------- state
VARIABLES
    inputs,             \* the widgets: vertical_bar_inputs, horizontal_bar_inputs,
                        \* link_bar_inputs (the dict input_details)
    phase,              \* "idle": script run with the button not pressed;
                        \* "computed", "done": see the actions
    calculation_data,   \* the handler's list of row dicts
    total_cage_weight,  \* the handler's running total
    st_calls,           \* st.error/warning/dataframe/success/info/download_button
                        \* calls of the run, in order
    report,             \* what generate_pdf_report gave (or raised) in the run
    disk,               \* company_logo.png in the working directory
    http,               \* the requests.get calls of the run's download_logo
    probe,              \* a direct call of calculate_bar_weight and its result
    noted               \* history: the summary an earlier pass computed for
                        \* the batch RefInputs

vars == << inputs, phase, calculation_data, total_cage_weight, st_calls,
           report, disk, http, probe, noted >>

\* The widget defaults: size index 0, value=0, value=0.0.
DefaultBar == [size |-> DefaultSize, qty |-> 0, length |-> 0]
DefaultInputs == [c \in {"vertical_bars", "horizontal_bars", "links"} |->
                     [i \in 1..TypesPerCategory |-> DefaultBar]]

NoProbe == [called |-> FALSE, bar_size |-> "", quantity |-> 0,
            length_per_bar_m |-> 0,
            ret |-> [total_weight |-> 0, unit_weight |-> 0, total_length |-> 0,
                     st |-> << >>]]

FetchOutcomes == [{LOGO_URL, FALLBACK_LOGO_URL} -> Outcomes]

NoNote == [set |-> FALSE, between |-> FALSE, data |-> << >>, total |-> 0]

\* ------------------------------------------------------- the application
\* The slots the modelled user fills in; the others keep their defaults.
AppSlots == { << "vertical_bars", 1 >>, << "vertical_bars", 2 >>,
              << "links", 1 >> }

Init ==
    /\ inputs = DefaultInputs
    /\ phase = "idle"
    /\ calculation_data = << >>
    /\ total_cage_weight = 0
    /\ st_calls = << >>
    /\ report = NoReport
    /\ disk = "absent"
    /\ http = << >>
    /\ probe = NoProbe
    /\ noted = NoNote

\* A widget change reruns the script with the button not pressed: nothing
\* of the previous run is displayed; the file on disk stays.
Rerun(new_inputs) ==
    /\ new_inputs # inputs
    /\ inputs' = new_inputs
    /\ phase' = "idle"
    /\ calculation_data' = << >>
    /\ total_cage_weight' = 0
    /\ st_calls' = << >>
    /\ report' = NoReport
    /\ http' = << >>
    /\ UNCHANGED << disk, probe, noted >>

\* st.selectbox(..., list(REBAR_WEIGHTS.keys()), ...)
SelectSize ==
    \E slot \in AppSlots, s \in UISizes :
        Rerun([inputs EXCEPT ![slot[1]][slot[2]].size = s])

\* st.number_input(..., min_value=0, value=0, step=1, ...)
EnterQuantity ==
    \E slot \in AppSlots, q \in 0..MaxQty :
        Rerun([inputs EXCEPT ![slot[1]][slot[2]].qty = q])

\* st.number_input(..., min_value=0.0, value=0.0, step=0.1, ...)
EnterLength ==
    \E slot \in AppSlots, l \in 0..MaxLen :
        Rerun([inputs EXCEPT ![slot[1]][slot[2]].length = l])

\* The handler without `total_cage_weight = 0.0`: the total carries over.
StaleHandler ==
    \E s \in { [wall_cage_summary(inputs) EXCEPT
                 !.total = @ + total_cage_weight] } :
    \E shown \in { s.st \o
                   << [kind |-> "dataframe", rows |-> df_round(s.data, 2)],
                      [kind |-> "success",
                       total |-> FormatFixed(s.total, 4, 2)] >> } :
    \E outcome \in FetchOutcomes :
        /\ phase' = "done"
        /\ calculation_data' = s.data
        /\ total_cage_weight' = s.total
        /\ IF s.data # << >>
           THEN \E g \in { generate_pdf_report(s.data, s.total, inputs, disk,
                                               outcome) } :
                    /\ report' = g.report
                    /\ disk' = g.disk
                    /\ http' = g.http
                    /\ st_calls' = IF g.report.status = "document"
                                   THEN Append(shown, [kind |-> "download_button"])
                                   ELSE shown
           ELSE /\ report' = NoReport
                /\ st_calls' = s.st \o << [kind |-> "info"] >>
                /\ http' = << >>
                /\ UNCHANGED disk
        /\ UNCHANGED << inputs, probe >>

\* if st.button("Calculate Wall Cage Weight"): the whole handler.
Handler ==
    \E s \in { wall_cage_summary(inputs) } :
    \E shown \in { s.st \o
                   << [kind |-> "dataframe", rows |-> df_round(s.data, 2)],
                      [kind |-> "success",
                       total |-> FormatFixed(s.total, 4, 2)] >> } :
    \E outcome \in FetchOutcomes :
        /\ phase' = "done"
        /\ calculation_data' = s.data
        /\ total_cage_weight' = s.total
        /\ IF s.data # << >>
           THEN \E g \in { generate_pdf_report(s.data, s.total, inputs, disk,
                                               outcome) } :
                    /\ report' = g.report
                    /\ disk' = g.disk
                    /\ http' = g.http
                    /\ st_calls' = IF g.report.status = "document"
                                   THEN Append(shown, [kind |-> "download_button"])
                                   ELSE shown
           ELSE /\ report' = NoReport
                /\ st_calls' = s.st \o << [kind |-> "info"] >>
                /\ http' = << >>
                /\ UNCHANGED disk
        /\ UNCHANGED << inputs, probe >>

ClickCalculate == Handler /\ UNCHANGED noted

Next == SelectSize \/ EnterQuantity \/ EnterLength \/ ClickCalculate

Spec == Init /\ [][Next]_vars

\* ------------------------------------------- passes with a noted summary
\* The batch whose first summary is noted.
RefInputs ==
    [DefaultInputs EXCEPT
        !.vertical_bars[1] = [size |-> "N12", qty |-> 1, length |-> 1],
        !.vertical_bars[2] = [size |-> "N10", qty |-> 1, length |-> 0],
        !.links[1] = [size |-> "N10", qty |-> 1, length |-> 1]]

\* The handler, with the history kept: the first pass over RefInputs is
\* noted, and so is whether a pass over another batch ran after it.
NotedCalculate ==
    /\ Handler
    /\ noted' = IF ~noted.set
                THEN IF inputs = RefInputs
                     THEN [set |-> TRUE, between |-> FALSE,
                           data |-> calculation_data',
                           total |-> total_cage_weight']
                     ELSE noted
                ELSE IF inputs # RefInputs
                     THEN [noted EXCEPT !.between = TRUE]
                     ELSE noted

NextPasses == SelectSize \/ EnterQuantity \/ EnterLength \/ NotedCalculate

SpecPasses == Init /\ [][NextPasses]_vars

\* ------------------------------------- the components taken as functions
\* Values outside what the widgets allow.
AnySizes == UISizes \cup UnknownSizes
AnyQty == -1..MaxQty
AnyLen == -1..MaxLen
AnyBars == [size : AnySizes, qty : AnyQty, length : AnyLen]
FnSlots == { << "vertical_bars", 1 >>, << "horizontal_bars", 3 >>, << "links", 2 >> }

AnyInputs ==
    { [c \in DOMAIN DefaultInputs |->
         [i \in 1..TypesPerCategory |->
            IF << c, i >> \in FnSlots THEN f[<< c, i >>] ELSE DefaultBar]] :
      f \in [FnSlots -> AnyBars] }

\* Arguments of a direct call of calculate_bar_weight.
ProbeSizes == DOMAIN REBAR_WEIGHTS \cup UnknownSizes
ProbeQty == (-1..MaxQty) \cup {5, 10, 50}
ProbeLen == (-1..MaxLen) \cup {10, 20, 30}

\* Either a batch for the summary computation, or the arguments of one call
\* of calculate_bar_weight.
InitFn ==
    /\ phase = "idle"
    /\ calculation_data = << >>
    /\ total_cage_weight = 0
    /\ st_calls = << >>
    /\ report = NoReport
    /\ disk = "absent"
    /\ http = << >>
    /\ noted = NoNote
    /\ \/ /\ inputs \in AnyInputs
          /\ probe = NoProbe
       \/ /\ inputs = DefaultInputs
          /\ \E s \in ProbeSizes, q \in ProbeQty, l \in ProbeLen :
                probe = [NoProbe EXCEPT !.bar_size = s, !.quantity = q,
                                        !.length_per_bar_m = l]

CallBarWeight ==
    /\ probe # NoProbe
    /\ ~probe.called
    /\ probe' = [probe EXCEPT
                   !.called = TRUE,
                   !.ret = calculate_bar_weight(probe.bar_size, probe.quantity,
                                                probe.length_per_bar_m)]
    /\ UNCHANGED << inputs, phase, calculation_data, total_cage_weight,
                    st_calls, report, disk, http, noted >>

\* The three loops of the handler, applied to the batch.
ComputeSummary ==
    /\ probe = NoProbe
    /\ phase = "idle"
    /\ \E s \in { wall_cage_summary(inputs) } :
       /\ calculation_data' = s.data
       /\ total_cage_weight' = s.total
       /\ st_calls' = s.st
    /\ phase' = "computed"
    /\ UNCHANGED << inputs, report, disk, http, probe, noted >>

\* generate_pdf_report applied to the summary, whether or not it is empty.
RenderReport ==
    /\ phase = "computed"
    /\ \E outcome \in FetchOutcomes :
          \E g \in { generate_pdf_report(calculation_data, total_cage_weight,
                                            inputs, disk, outcome) } :
              /\ report' = g.report
              /\ disk' = g.disk
              /\ http' = g.http
    /\ phase' = "done"
    /\ UNCHANGED << inputs, calculation_data, total_cage_weight, st_calls,
                    probe, noted >>

NextFn == CallBarWeight \/ ComputeSummary \/ RenderReport

SpecFn == InitFn /\ [][NextFn]_vars


\* ------------------------------------------------------------- properties
AllSlots == { << c, i >> : c \in DOMAIN DefaultInputs, i \in 1..TypesPerCategory }
BarAt(slot) == inputs[slot[1]][slot[2]]

\* The component label the handler gives the line item of a slot.
LineItemLabel(slot) ==
    [name |-> CASE slot[1] = "vertical_bars" -> "Vertical Bars"
                [] slot[1] = "horizontal_bars" -> "Horizontal Bars"
                [] slot[1] = "links" -> "Links",
     type |-> slot[2]]

HasLineItem(slot) ==
    \E k \in 1..Len(calculation_data) :
        calculation_data[k]["Component"] = LineItemLabel(slot)

RECURSIVE SumTotalWeight(_)
SumTotalWeight(rows) ==
    IF rows = << >> THEN 0
    ELSE rows[1]["Total Weight (kg)"] + SumTotalWeight(Tail(rows))

Signalled(kind) == \E k \in 1..Len(st_calls) : st_calls[k].kind = kind

\* C1: for a size that is a key of the table and quantity >= 0, length >= 0,
\* calculate_bar_weight returns unit weight table[size], total length
\* quantity * length and total weight quantity * length * table[size],
\* unrounded; N12, 10, 3.0 m gives 30.0 m and 26.64 kg.
C1_ExactProduct ==
    (probe.called /\ probe.bar_size \in DOMAIN REBAR_WEIGHTS
        /\ probe.quantity >= 0 /\ probe.length_per_bar_m >= 0)
    => /\ probe.ret.unit_weight = REBAR_WEIGHTS[probe.bar_size]
       /\ probe.ret.total_length = probe.quantity * probe.length_per_bar_m
       /\ probe.ret.total_weight =
              probe.quantity * probe.length_per_bar_m * REBAR_WEIGHTS[probe.bar_size]
       /\ (probe.bar_size = "N12" /\ probe.quantity = 10
              /\ probe.length_per_bar_m = 30)
          => (probe.ret.total_length = 300 /\ probe.ret.total_weight = 266400)

C1_Witness ==
    /\ probe.called
    /\ probe.bar_size = "N12" /\ probe.quantity = 10 /\ probe.length_per_bar_m = 30
    /\ probe.ret.total_weight = 266400

\* C2: after the handler ran, a slot has a line item iff its quantity > 0
\* and its length > 0 (one line item each), no st.error or st.warning was
\* made, and the grand total is the sum of the line items' total weights.
C2_FilterAndTotal ==
    phase = "done"
    => /\ \A slot \in AllSlots :
              HasLineItem(slot) <=> (BarAt(slot).qty > 0 /\ BarAt(slot).length > 0)
       /\ Len(calculation_data) =
              Cardinality({ slot \in AllSlots :
                              BarAt(slot).qty > 0 /\ BarAt(slot).length > 0 })
       /\ ~Signalled("error") /\ ~Signalled("warning")
       /\ total_cage_weight = SumTotalWeight(calculation_data)
       /\ (calculation_data = << >> => total_cage_weight = 0)

C2_Witness ==
    /\ phase = "done"
    /\ Len(calculation_data) = 2
    /\ \E slot \in AllSlots : BarAt(slot).qty > 0 /\ BarAt(slot).length = 0
    /\ total_cage_weight = 617 + 888


\* The component label the Input Details table gives the row of a slot.
InputRowLabel(slot) == [name |-> component_name_map[slot[1]], type |-> slot[2]]

HasInputRow(slot) ==
    \E k \in 1..Len(report.input_section.rows) :
        report.input_section.rows[k].component = InputRowLabel(slot)

\* The summary table row of line item k shows the item's figures.
SummaryRowShows(k) ==
    LET item == calculation_data[k]
        row  == report.summary_section.rows[k]
    IN  /\ row.component = item["Component"]
        /\ row.total_length = FormatFixed(item["Total Length (m)"], 1, 2)
        /\ row.unit_weight = FormatFixed(item["Unit Weight (kg/m)"], 3, 3)
        /\ row.total_weight = FormatFixed(item["Total Weight (kg)"], 4, 2)

\* C3: rendering produces a document for every summary the handler
\* produces, with one summary table row per line item of every category
\* (vertical bars, horizontal bars, links) showing the item's figures.
C3_EveryCategoryRendered ==
    (phase = "done" /\ calculation_data # << >>)
    => /\ report.status = "document"
       /\ report.summary_section.kind = "table"
       /\ Len(report.summary_section.rows) = Len(calculation_data)
       /\ \A k \in 1..Len(calculation_data) : SummaryRowShows(k)

\* C4: for a size that is no key of the table, whatever the quantity and
\* the length, calculate_bar_weight makes the st.error call and returns
\* zero total weight, unit weight and total length; in a batch the other
\* items are still processed and the item adds zero to the grand total.
KnownWeight(bar) ==
    IF bar.size \in DOMAIN REBAR_WEIGHTS /\ bar.qty > 0 /\ bar.length > 0
    THEN bar.qty * bar.length * REBAR_WEIGHTS[bar.size] ELSE 0

\* What the items of the batch weigh together, from the table.
RECURSIVE SumKnownWeight(_)
SumKnownWeight(slots) ==
    IF slots = {} THEN 0
    ELSE LET s == CHOOSE x \in slots : TRUE
         IN  KnownWeight(BarAt(s)) + SumKnownWeight(slots \ {s})

C4_UnknownSizeZero ==
    /\ (probe.called /\ probe.bar_size \notin DOMAIN REBAR_WEIGHTS)
       => /\ probe.ret.total_weight = 0
          /\ probe.ret.unit_weight = 0
          /\ probe.ret.total_length = 0
          /\ probe.ret.st = << [kind |-> "error", size |-> probe.bar_size] >>
    /\ (phase \in {"computed", "done"} /\ probe = NoProbe)
       => /\ \A slot \in AllSlots :
                (BarAt(slot).qty > 0 /\ BarAt(slot).length > 0)
                => /\ HasLineItem(slot)
                   /\ BarAt(slot).size \notin DOMAIN REBAR_WEIGHTS
                      => /\ \E k \in 1..Len(st_calls) :
                               st_calls[k] = [kind |-> "error",
                                              size |-> BarAt(slot).size]
                         /\ \A k \in 1..Len(calculation_data) :
                               calculation_data[k]["Component"] = LineItemLabel(slot)
                               => /\ calculation_data[k]["Total Weight (kg)"] = 0
                                  /\ calculation_data[k]["Unit Weight (kg/m)"] = 0
                                  /\ calculation_data[k]["Total Length (m)"] = 0
          /\ total_cage_weight = SumKnownWeight(AllSlots)

C4_Witness ==
    /\ phase = "computed"
    /\ inputs.vertical_bars[1] = [size |-> "INVALID", qty |-> 1, length |-> 1]
    /\ inputs.links[2] = [size |-> "N12", qty |-> 1, length |-> 1]
    /\ Len(calculation_data) = 2
    /\ Signalled("error")
    /\ total_cage_weight = 888

\* C5: for a known size and quantity < 0 or length < 0, calculate_bar_weight
\* makes the st.warning call and returns total weight 0, total length 0 and
\* unit weight table[size].
C5_NegativeInput ==
    (probe.called /\ probe.bar_size \in DOMAIN REBAR_WEIGHTS
        /\ (probe.quantity < 0 \/ probe.length_per_bar_m < 0))
    => /\ probe.ret.total_weight = 0
       /\ probe.ret.total_length = 0
       /\ probe.ret.unit_weight = REBAR_WEIGHTS[probe.bar_size]
       /\ probe.ret.st = << [kind |-> "warning", size |-> probe.bar_size] >>

C5_Witness ==
    /\ probe.called
    /\ probe.bar_size = "N16" /\ probe.quantity = -1 /\ probe.length_per_bar_m = 30
    /\ probe.ret.unit_weight = 1579 /\ probe.ret.total_weight = 0

\* C6 as stated: when the batch holds an item with negative quantity or
\* negative length (and a known size), the summary computation makes the
\* st.warning call for that item and the item adds zero to the grand total.
Negative(bar) == bar.qty < 0 \/ bar.length < 0

C6_WarningSurfaced ==
    (phase \in {"computed", "done"} /\ probe = NoProbe)
    => /\ \A slot \in AllSlots :
             (Negative(BarAt(slot)) /\ BarAt(slot).size \in DOMAIN REBAR_WEIGHTS)
             => \E k \in 1..Len(st_calls) :
                   st_calls[k] = [kind |-> "warning", size |-> BarAt(slot).size]
       /\ total_cage_weight = SumKnownWeight(AllSlots)

\* C6 amended: an item with negative quantity or negative length is
\* excluded by the loop's guard before calculate_bar_weight is called: the
\* summary computation makes no st.warning call, the item has no line item,
\* and it adds zero to the grand total.
C6_NegativeFilteredSilently ==
    (phase \in {"computed", "done"} /\ probe = NoProbe)
    => /\ ~Signalled("warning")
       /\ \A slot \in AllSlots : Negative(BarAt(slot)) => ~HasLineItem(slot)
       /\ total_cage_weight = SumKnownWeight(AllSlots)

C6_Witness ==
    /\ phase = "computed"
    /\ inputs.vertical_bars[1] = [size |-> "N12", qty |-> -1, length |-> 1]
    /\ inputs.links[2] = [size |-> "N10", qty |-> 1, length |-> 1]
    /\ Len(calculation_data) = 1
    /\ total_cage_weight = 617

\* C7 as stated: in a report, a slot has an Input Details row iff its
\* quantity > 0 and its length > 0, that is iff it has a line item in the
\* report's Weight Calculation Summary.
C7_InputRowsAreLineItems ==
    (phase = "done" /\ report.status = "document")
    => \A slot \in AllSlots :
          /\ HasInputRow(slot) <=> (BarAt(slot).qty > 0 /\ BarAt(slot).length > 0)
          /\ HasInputRow(slot) <=> HasLineItem(slot)

\* C7 amended: in a report, a slot has an Input Details row iff its
\* quantity > 0 or its length > 0 (one row each); every slot with a line
\* item in the summary has a row, and a slot with only one of the two
\* positive has a row and no line item.
C7_InputRowsEitherPositive ==
    (phase = "done" /\ report.status = "document")
    => /\ \A slot \in AllSlots :
             /\ HasInputRow(slot)
                <=> (BarAt(slot).qty > 0 \/ BarAt(slot).length > 0)
             /\ HasLineItem(slot) => HasInputRow(slot)
       /\ Len(report.input_section.rows) =
             Cardinality({ slot \in AllSlots :
                             BarAt(slot).qty > 0 \/ BarAt(slot).length > 0 })

C7_Witness ==
    /\ phase = "done" /\ report.status = "document"
    /\ \E slot \in AllSlots :
          /\ BarAt(slot).qty > 0 /\ BarAt(slot).length = 0
          /\ HasInputRow(slot) /\ ~HasLineItem(slot)
    /\ \E slot \in AllSlots : HasInputRow(slot) /\ HasLineItem(slot)

\* The URL whose image the run's download_logo fetched, if any.
FetchedThisRun ==
    { http[k].url : k \in { j \in 1..Len(http) : http[j].outcome = "ok" } }

\* C8: report generation returns a document whatever the two fetches do;
\* the primary URL is requested first, the fallback only if the primary
\* gave no logo, and each URL at most once per render.
C8_RenderSurvivesFetch ==
    (phase = "done" /\ calculation_data # << >>)
    => /\ report.status = "document"
       /\ Len(http) \in {1, 2}
       /\ http[1].url = LOGO_URL
       /\ Len(http) = 2 <=> http[1].outcome # "ok"
       /\ Len(http) = 2 => http[2].url = FALLBACK_LOGO_URL

\* What does hold of a render's fetches: download_logo behaves as C8 says,
\* and the only render that raises is one whose summary has a links item.
FetchDiscipline ==
    (phase = "done" /\ calculation_data # << >>)
    => /\ Len(http) \in {1, 2}
       /\ http[1].url = LOGO_URL
       /\ Len(http) = 2 <=> http[1].outcome # "ok"
       /\ Len(http) = 2 => http[2].url = FALLBACK_LOGO_URL
       /\ report.status \in {"document", "KeyError"}
       /\ report.status = "KeyError"
          <=> \E i \in 1..TypesPerCategory : HasLineItem(<< "links", i >>)

\* C9: the logo in a render's header is one fetched during that render; a
\* render in which both fetches fail has a text-only header, whatever
\* earlier renders fetched.
C9_LogoFromThisRender ==
    (phase = "done" /\ report.status = "document")
    => /\ report.header.logo \in FetchedThisRun \cup {"none"}
       /\ FetchedThisRun = {} => report.header.logo = "none"

\* C10: rendering a summary with no line item gives a document with the
\* "no data" notice in place of the summary table and no summary table row.
C10_EmptySummaryNotice ==
    (phase = "done" /\ calculation_data = << >>)
    => /\ report.status = "document"
       /\ report.summary_section.kind = "notice"
       /\ report.summary_section.text =
             "No bar details were entered for calculation."
       /\ report.summary_section.rows = << >>

C10_Witness ==
    /\ phase = "done" /\ calculation_data = << >>
    /\ report.status = "document"
    /\ report.summary_section.kind = "notice"
    /\ report.input_section.kind = "table"

\* The rows of the table st.dataframe showed in the run.
DataframeRows ==
    LET ks == { k \in 1..Len(st_calls) : st_calls[k].kind = "dataframe" }
    IN  IF ks = {} THEN << >> ELSE st_calls[CHOOSE k \in ks : TRUE].rows

\* C11: the formatting policy holds of every rendering of a summary: in the
\* on-screen table as in the report's summary table, the quantity is an
\* integer, lengths and weights have 2 decimal places and the unit weight
\* has 3 (N12 is shown as 0.888).
C11_UniformFormatting ==
    (phase = "done" /\ calculation_data # << >>)
    => /\ Len(DataframeRows) = Len(calculation_data)
       /\ \A k \in 1..Len(calculation_data) :
            LET item == calculation_data[k]
                cell == DataframeRows[k]
            IN  /\ cell["Quantity"] = item["Quantity"]
                /\ cell["Total Length (m)"] =
                      FormatFixed(item["Total Length (m)"], 1, 2)
                /\ cell["Total Weight (kg)"] =
                      FormatFixed(item["Total Weight (kg)"], 4, 2)
                /\ cell["Unit Weight (kg/m)"] =
                      [digits |-> item["Unit Weight (kg/m)"], dp |-> 3]
                /\ report.status = "document"
                   => /\ report.summary_section.rows[k].quantity =
                            StrInt(item["Quantity"])
                      /\ report.summary_section.rows[k].total_weight.dp = 2
                      /\ report.summary_section.rows[k].total_length.dp = 2
                      /\ report.summary_section.rows[k].length.dp = 2
                      /\ report.summary_section.rows[k].unit_weight =
                            [digits |-> item["Unit Weight (kg/m)"], dp |-> 3]

\* What does hold: the report shows the unit weight to 3 places, the
\* on-screen table shows every float column, the unit weight too, rounded
\* to 2 places (0.888 as 0.89, 0.617 as 0.62).
OnScreenTwoPlaces ==
    (phase = "done" /\ calculation_data # << >>)
    => /\ Len(DataframeRows) = Len(calculation_data)
       /\ \A k \in 1..Len(calculation_data) :
            /\ DataframeRows[k]["Unit Weight (kg/m)"] \in
                  { [digits |-> 62, dp |-> 2], [digits |-> 89, dp |-> 2] }
            /\ DataframeRows[k]["Total Weight (kg)"].dp = 2
            /\ report.status = "document"
               => report.summary_section.rows[k].unit_weight.dp = 3

\* C12: a pass over a batch that an earlier pass was given computes the
\* same summary (the same line items in the same order, the same grand
\* total) as the earlier pass, whatever passes ran in between.
C12_SameInputsSameSummary ==
    (phase = "done" /\ inputs = RefInputs /\ noted.set)
    => /\ calculation_data = noted.data
       /\ total_cage_weight = noted.total

C12_Witness ==
    /\ phase = "done" /\ inputs = RefInputs
    /\ noted.set /\ noted.between
    /\ Len(calculation_data) = 2
    /\ disk # "absent"

=============================================================================
